---- MODULE Spec2Model ----
(***************************************************************************)
(* Model of the chunked historical log fetcher of fetch_stats.py           *)
(* (get_historical_events) together with the connection set up by main.    *)
(* One behaviour is one call of get_historical_events: the while loop over *)
(* block windows, the for loop over attempts, the try block with the log   *)
(* query and the per-record decoding, and the except clause.               *)
(***************************************************************************)
EXTENDS Integers, Sequences, FiniteSets, TLC

VARIABLES
    w3,           \* the connection handed to get_historical_events
    contract,     \* the contract handle: the connection it was built on, and
                  \* whether event_name is one of the events of its ABI
    from_block,   \* argument from_block
    to_block,     \* argument to_block
    start_block,  \* local start_block
    end_block,    \* local end_block
    attempt,      \* loop variable of "for attempt in range(max_retries)"
    all_events,   \* local all_events
    pc,           \* "loop" (line 101), "try" (line 105), "done", "raised"
    returned,     \* the value returned to the caller
    windows,      \* history: the (start_block, end_block) pairs of line 102
    attempts,     \* history: one entry per execution of the try block
    failures,     \* number of log queries the node has failed so far
    served,       \* number of raw logs the node has returned so far
    slept         \* number of time.sleep(1) calls (line 135) since the
                  \* current window was entered

vars == << w3, contract, from_block, to_block, start_block, end_block,
           attempt, all_events, pc, returned, windows, attempts, failures,
           served, slept >>

----------------------------------------------------------------------------
(* Program constants *)

max_retries == 3

chunk_size == 9900

(* Bounds of the environment *)

\* most raw logs of the event in the whole block range
MaxLogs == 3

\* most log queries the node fails during one call
MaxFailures == 3

\* the block ranges a call is made with: one, two and three windows, the
\* edges of a window, an empty range, and the range [0, 25000]
BlockRanges ==
    { <<0, 0>>, <<0, 9899>>, <<0, 9900>>, <<0, 9901>>, <<1, 9901>>,
      <<1, 9902>>, <<0, 19801>>, <<0, 25000>>, <<5, 4>> }

\* the chain heads w3.eth.block_number reports to a caller: below one day of
\* blocks, exactly one day, and above one week
CurrentBlocks == { 100, 28800, 250000 }

\* the endpoint of RPC_URL, the only one main opens
RPC_URL == "rpc_url"

\* the fallback endpoints of the run: main reads RPC_URL and nothing else
FallbackEndpoints == { }

\* the classes of exception a log query ends with
ErrorKinds == {"transient", "fatal"}

Min(a, b) == IF a <= b THEN a ELSE b

----------------------------------------------------------------------------
(* Pure parts of get_historical_events *)

\* variants of line 102: a window one block shorter, and no chunking at all
EndBlockShort(start, to) == Min(start + chunk_size - 1, to)

EndBlockWhole(start, to) == to

EndBlock(start, to) == Min(start + chunk_size, to)

\* variant of line 137: the next window leaves one block out
NextStartBlockGap(e) == e + 2

NextStartBlock(e) == e + 1

\* "except Exception" catches every exception class the try block raises:
\* a missing event ("abi": StopIteration or the ABI lookup error) and both
\* kinds of query error
CaughtTransportOnly(kind) == kind = "transient"

CaughtQueryOnly(kind) == kind \in ErrorKinds

Caught(kind) == kind \in ErrorKinds \cup {"abi"}

\* event.process_log(evt): the decoded record of a raw log
ProcessLog(evt) ==
    [event |-> "decoded", blockNumber |-> evt.blockNumber, logIndex |-> evt.logIndex]

\* variant of line 126: the record is put in front
AppendEventFront(events, processed) == << processed >> \o events

AppendEvent(events, processed) == Append(events, processed)

\* variant of lines 123-129: the loop ends at the first log that does not decode
RECURSIVE ProcessLogsBreak(_, _)
ProcessLogsBreak(events, logs) ==
    IF logs = << >> THEN events
    ELSE IF Head(logs).decodable
         THEN ProcessLogsBreak(AppendEvent(events, ProcessLog(Head(logs))), Tail(logs))
         ELSE events

\* the loop "for evt in events": a raw log that does not decode is passed over
RECURSIVE ProcessLogs(_, _)
ProcessLogs(events, logs) ==
    IF logs = << >> THEN events
    ELSE IF Head(logs).decodable
         THEN ProcessLogs(AppendEvent(events, ProcessLog(Head(logs))), Tail(logs))
         ELSE ProcessLogs(events, Tail(logs))

\* the raw logs a node returns for [s, e]: ascending blocks of the window,
\* each log decodable or not
Responses(s, e) ==
    UNION { { [i \in 1..n |-> [blockNumber |-> Min(s + i - 1, e),
                              logIndex |-> i,
                              decodable |-> d[i]]] : d \in [1..n -> BOOLEAN] }
            : n \in 0..(MaxLogs - served) }

\* the callers of get_historical_events
Callers == { "calculate_burn_metrics", "get_nft_analytics",
             "get_swap_analytics", "get_transfer_analytics" }

DayAgoBlock(current_block) == current_block - 28800

WeekAgoBlock(current_block) == current_block - 201600

\* the (from_block, to_block) pairs a caller passes when the chain head is
\* current_block: the last day, and for two of the callers the last week
CallerRanges(caller, current_block) ==
    { << DayAgoBlock(current_block), current_block >> }
    \cup IF caller \in { "calculate_burn_metrics", "get_transfer_analytics" }
         THEN { << WeekAgoBlock(current_block), current_block >> }
         ELSE { }

\* variant of w3.eth.contract: the handle is kept from another connection
ContractStale(conn, has_event) == [conn |-> "stale", has_event |-> has_event]

\* w3.eth.contract(address, abi): a handle bound to the connection it is
\* built on; has_event tells whether the ABI has the event asked for
Contract(conn, has_event) == [conn |-> conn, has_event |-> has_event]

----------------------------------------------------------------------------
Init ==
    /\ w3 = RPC_URL
    /\ contract \in { Contract(w3, b) : b \in BOOLEAN }
    /\ \E r \in BlockRanges : from_block = r[1] /\ to_block = r[2]
    /\ start_block = from_block
    /\ end_block = from_block
    /\ attempt = 0
    /\ all_events = << >>
    /\ pc = "loop"
    /\ returned = << >>
    /\ windows = << >>
    /\ attempts = << >>
    /\ failures = 0
    /\ served = 0
    /\ slept = 0

\* a call made by one of the callers. A week of blocks is 21 windows: the
\* node is left one failure and one log for the call, the rest of
\* MaxFailures and MaxLogs went to the earlier queries of the run
CallerInit ==
    /\ w3 = RPC_URL
    /\ contract \in { Contract(w3, b) : b \in BOOLEAN }
    /\ \E caller \in Callers, current_block \in CurrentBlocks :
          \E r \in CallerRanges(caller, current_block) :
             from_block = r[1] /\ to_block = r[2]
    /\ start_block = from_block
    /\ end_block = from_block
    /\ attempt = 0
    /\ all_events = << >>
    /\ pc = "loop"
    /\ returned = << >>
    /\ windows = << >>
    /\ attempts = << >>
    /\ failures = MaxFailures - 1
    /\ served = MaxLogs - 1
    /\ slept = 0

Inputs == << w3, contract, from_block, to_block >>

\* lines 101-104: the loop test, the window and the first attempt
EnterWindow ==
    /\ pc = "loop"
    /\ start_block <= to_block
    /\ end_block' = EndBlock(start_block, to_block)
    /\ attempt' = 0
    /\ windows' = Append(windows, << start_block, end_block' >>)
    /\ pc' = "try"
    /\ slept' = 0
    /\ UNCHANGED << Inputs, start_block, all_events, returned, attempts,
                    failures, served >>

\* line 139
Return ==
    /\ pc = "loop"
    /\ start_block > to_block
    /\ returned' = all_events
    /\ pc' = "done"
    /\ UNCHANGED << Inputs, start_block, end_block, attempt, all_events,
                    windows, attempts, failures, served, slept >>

AttemptRecord(outcome, logs) ==
    [fromBlock |-> start_block, toBlock |-> end_block, attempt |-> attempt,
     conn |-> w3, handle |-> contract.conn, outcome |-> outcome, logs |-> logs]

\* variant of lines 132-137: the scan is given up after the last attempt
ExceptAbort(kind) ==
    /\ attempts' = Append(attempts, AttemptRecord(kind, << >>))
    /\ IF Caught(kind)
       THEN IF attempt = max_retries - 1
            THEN /\ start_block' = to_block + 1
                 /\ pc' = "loop"
                 /\ UNCHANGED attempt
            ELSE /\ attempt' = attempt + 1
                 /\ UNCHANGED << start_block, pc >>
       ELSE /\ pc' = "raised"
            /\ UNCHANGED << start_block, attempt >>
    /\ slept' = IF Caught(kind) THEN slept + 1 ELSE slept
    /\ UNCHANGED << Inputs, end_block, all_events, returned, windows >>

\* lines 132-137: the except clause, then the next attempt or, after the
\* last one, the next window
Except(kind) ==
    /\ attempts' = Append(attempts, AttemptRecord(kind, << >>))
    /\ IF Caught(kind)
       THEN IF attempt = max_retries - 1
            THEN /\ start_block' = NextStartBlock(end_block)
                 /\ pc' = "loop"
                 /\ UNCHANGED attempt
            ELSE /\ attempt' = attempt + 1
                 /\ UNCHANGED << start_block, pc >>
       ELSE /\ pc' = "raised"
            /\ UNCHANGED << start_block, attempt >>
    /\ slept' = IF Caught(kind) THEN slept + 1 ELSE slept
    /\ UNCHANGED << Inputs, end_block, all_events, returned, windows >>

\* lines 107-110 raise: event_name is not an event of the contract's ABI
AttemptAbiMissing ==
    /\ pc = "try"
    /\ ~contract.has_event
    /\ Except("abi")
    /\ UNCHANGED << failures, served >>

\* line 115 raises
AttemptGetLogsRaises ==
    /\ pc = "try"
    /\ contract.has_event
    /\ failures < MaxFailures
    /\ failures' = failures + 1
    /\ \E kind \in ErrorKinds : Except(kind)
    /\ UNCHANGED served

\* variant of lines 115-137 without the break of line 131: the for loop
\* goes on to its next attempt after an answered query
AttemptSucceedsNoBreak ==
    /\ pc = "try"
    /\ contract.has_event
    /\ \E logs \in Responses(start_block, end_block) :
         /\ attempts' = Append(attempts, AttemptRecord("ok", logs))
         /\ all_events' = ProcessLogs(all_events, logs)
         /\ served' = served + Len(logs)
    /\ IF attempt = max_retries - 1
       THEN /\ start_block' = NextStartBlock(end_block)
            /\ pc' = "loop"
            /\ UNCHANGED attempt
       ELSE /\ attempt' = attempt + 1
            /\ UNCHANGED << start_block, pc >>
    /\ UNCHANGED << Inputs, end_block, returned, windows, failures, slept >>

\* lines 115-131 and 137: the query answers, the logs are decoded, break
AttemptSucceeds ==
    /\ pc = "try"
    /\ contract.has_event
    /\ \E logs \in Responses(start_block, end_block) :
         /\ attempts' = Append(attempts, AttemptRecord("ok", logs))
         /\ all_events' = ProcessLogs(all_events, logs)
         /\ served' = served + Len(logs)
    /\ start_block' = NextStartBlock(end_block)
    /\ pc' = "loop"
    /\ UNCHANGED << Inputs, end_block, attempt, returned, windows, failures,
                    slept >>

Next ==
    \/ EnterWindow
    \/ Return
    \/ AttemptAbiMissing
    \/ AttemptGetLogsRaises
    \/ AttemptSucceeds

Spec == Init /\ [][Next]_vars

\* the program is one sequential thread and every log query ends, with an
\* answer or with an exception (the HTTP provider's request timeout): a step
\* that can be taken is taken
FairSpec == Init /\ [][Next]_vars /\ WF_vars(Next)

CallerSpec == CallerInit /\ [][Next]_vars

\* what the caller receives: line 139 returns the list all_events and
\* nothing else
CallerView == [events |-> returned]

TypeOK ==
    /\ pc \in {"loop", "try", "done", "raised"}
    /\ attempt \in 0..(max_retries - 1)
    /\ failures \in 0..MaxFailures
    /\ served \in 0..MaxLogs
    /\ slept \in 0..max_retries

----------------------------------------------------------------------------
(* What the properties below are stated over *)

Failed(a) == a.outcome # "ok"

\* the attempts that reached w3.eth.get_logs (line 115)
Queries == SelectSeq(attempts, LAMBDA a : a.outcome # "abi")

\* the block windows of a sequence of attempts, in order, each once
RECURSIVE WindowsOf(_)
WindowsOf(atts) ==
    IF atts = << >> THEN << >>
    ELSE LET rest == WindowsOf(Tail(atts))
             w == << Head(atts).fromBlock, Head(atts).toBlock >>
         IN IF rest # << >> /\ Head(rest) = w THEN rest ELSE << w >> \o rest

\* the records a response contributes: its decodable logs, in response order
Expected(logs) ==
    LET good == SelectSeq(logs, LAMBDA l : l.decodable)
    IN [i \in 1..Len(good) |->
          [event |-> "decoded", blockNumber |-> good[i].blockNumber,
           logIndex |-> good[i].logIndex]]

\* the records of the answered attempts, in attempt order
RECURSIVE ConcatOk(_)
ConcatOk(atts) ==
    IF atts = << >> THEN << >>
    ELSE Expected(Head(atts).logs) \o ConcatOk(Tail(atts))

\* the attempts made for window i
AttemptsOfWindow(i) ==
    SelectSeq(attempts, LAMBDA a : << a.fromBlock, a.toBlock >> = windows[i])

\* window i was given up: every one of its max_retries attempts failed
Skipped(i) ==
    /\ Len(AttemptsOfWindow(i)) = max_retries
    /\ \A k \in 1..max_retries : Failed(AttemptsOfWindow(i)[k])

Succeeded(i) ==
    \E k \in 1..Len(AttemptsOfWindow(i)) : ~Failed(AttemptsOfWindow(i)[k])

\* the window a block belongs to (0 when no window holds it)
WindowIndex(b) ==
    IF \E i \in 1..Len(windows) : windows[i][1] <= b /\ b <= windows[i][2]
    THEN CHOOSE i \in 1..Len(windows) : windows[i][1] <= b /\ b <= windows[i][2]
    ELSE 0

----------------------------------------------------------------------------
\* C1 (as stated in the specification): for the range [0, 25000] the log
\* queries are issued for exactly the windows [0,9900], [9901,19800] and
\* [19801,25000], in that order.
C1_SpecWindows ==
    (from_block = 0 /\ to_block = 25000 /\ contract.has_event /\ pc = "done")
        => WindowsOf(Queries) = << <<0, 9900>>, <<9901, 19800>>, <<19801, 25000>> >>

\* C1 (amended): for the range [0, 25000] the log queries are issued for
\* exactly the windows [0,9900], [9901,19801] and [19802,25000], in that
\* order; these are the three windows the loop goes through.
C1_CodeWindows ==
    (from_block = 0 /\ to_block = 25000 /\ pc = "done")
        => /\ windows = << <<0, 9900>>, <<9901, 19801>>, <<19802, 25000>> >>
           /\ contract.has_event => WindowsOf(Queries) = windows

C1_Witness ==
    /\ from_block = 0 /\ to_block = 25000 /\ pc = "done"
    /\ contract.has_event
    /\ Len(WindowsOf(Queries)) = 3

\* C2: for from <= to the windows partition the range: the first starts at
\* from, the last ends at to, every window has start <= end, each following
\* window starts at the previous end + 1, and every attempt is made on one
\* of these windows.
C2_Partition ==
    from_block <= to_block =>
        /\ windows # << >> => windows[1][1] = from_block
        /\ \A i \in 1..Len(windows) :
              /\ windows[i][1] <= windows[i][2]
              /\ windows[i][2] <= to_block
              /\ i > 1 => windows[i][1] = windows[i - 1][2] + 1
        /\ \A k \in 1..Len(attempts) :
              \E i \in 1..Len(windows) :
                 << attempts[k].fromBlock, attempts[k].toBlock >> = windows[i]
        /\ pc = "done" => windows # << >> /\ windows[Len(windows)][2] = to_block

C2_Witness ==
    /\ pc = "done"
    /\ from_block = 1
    /\ Len(windows) = 2
    /\ Len(WindowsOf(Queries)) = 2

\* C3 (as stated in the specification): every window passed to the log
\* query covers at most chunk_size blocks, both endpoints counted.
C3_AtMostChunk ==
    \A k \in 1..Len(Queries) :
        Queries[k].toBlock - Queries[k].fromBlock + 1 <= chunk_size

\* C3 (amended): every window passed to the log query has toBlock - fromBlock
\* at most chunk_size, so it covers at most chunk_size + 1 blocks, both
\* endpoints counted.
C3_AtMostChunkPlusOne ==
    \A k \in 1..Len(Queries) :
        /\ Queries[k].toBlock - Queries[k].fromBlock <= chunk_size
        /\ Queries[k].toBlock - Queries[k].fromBlock + 1 <= chunk_size + 1

C3_Witness ==
    \E k \in 1..Len(Queries) :
        Queries[k].toBlock - Queries[k].fromBlock + 1 = chunk_size + 1

\* C4: windows are processed in ascending block order, and in all_events and
\* in the returned list a record of an earlier window never comes after a
\* record of a later window, whatever attempts failed in between.
C4_AscendingOrder ==
    /\ \A i, j \in 1..Len(windows) : i < j => windows[i][2] < windows[j][1]
    /\ \A i, j \in 1..Len(attempts) :
          i < j => attempts[i].fromBlock <= attempts[j].fromBlock
    /\ \A i, j \in 1..Len(all_events) :
          i < j => WindowIndex(all_events[i].blockNumber)
                      <= WindowIndex(all_events[j].blockNumber)
    /\ pc = "done" =>
          /\ returned = ConcatOk(attempts)
          /\ \A i, j \in 1..Len(returned) :
                i < j => WindowIndex(returned[i].blockNumber)
                            <= WindowIndex(returned[j].blockNumber)

C4_Witness ==
    /\ pc = "done"
    /\ \E i, j \in 1..Len(returned) :
          i < j /\ WindowIndex(returned[i].blockNumber)
                      < WindowIndex(returned[j].blockNumber)
    /\ \E k \in 1..Len(attempts) : Failed(attempts[k])

\* C5: a window whose attempts all fail is skipped and the scan goes on with
\* the next window; the records collected so far are exactly those of the
\* answered attempts, so the returned list holds the records of the windows
\* that succeeded and nothing of the skipped ones.
C5_SkipAndContinue ==
    /\ all_events = ConcatOk(attempts)
    /\ \A i \in 1..Len(windows) :
          (Skipped(i) /\ windows[i][2] < to_block /\ pc = "done")
              => i < Len(windows)
    /\ pc = "done" =>
          /\ returned = ConcatOk(attempts)
          /\ \A r \in 1..Len(returned) :
                Succeeded(WindowIndex(returned[r].blockNumber))

C5_Witness ==
    /\ pc = "done"
    /\ Len(windows) = 3
    /\ Succeeded(1) /\ Skipped(2) /\ Succeeded(3)
    /\ \E r \in 1..Len(returned) : WindowIndex(returned[r].blockNumber) = 1
    /\ \E r \in 1..Len(returned) : WindowIndex(returned[r].blockNumber) = 3

\* C6: no exception leaves get_historical_events: whatever queries fail and
\* whatever logs do not decode, the call does not end by raising, and when it
\* ends it has returned the list all_events.
C6_NeverRaises ==
    /\ pc # "raised"
    /\ pc = "done" => returned = all_events /\ DOMAIN returned = 1..Len(returned)

C6_Witness ==
    /\ pc = "done"
    /\ \E k \in 1..Len(attempts) : attempts[k].outcome = "fatal"
    /\ \E k \in 1..Len(attempts) :
          \E n \in 1..Len(attempts[k].logs) : ~attempts[k].logs[n].decodable

\* C7: a raw log that does not decode is dropped: the answered attempt
\* appends exactly the decodable logs of its response, in response order,
\* and ends the window's retry loop, so the decode failure causes neither a
\* retry nor a failed attempt.
C7_DropUndecodable ==
    [][ (pc = "try" /\ Len(attempts') = Len(attempts) + 1
            /\ attempts'[Len(attempts')].outcome = "ok")
        => /\ all_events' = all_events \o Expected(attempts'[Len(attempts')].logs)
           /\ \A n \in 1..Len(all_events') : all_events'[n].event = "decoded"
           /\ pc' = "loop"
           /\ start_block' = end_block + 1
           /\ failures' = failures ]_vars

C7_Witness ==
    \E k \in 1..Len(attempts) :
        /\ attempts[k].outcome = "ok"
        /\ Len(attempts[k].logs) >= 2
        /\ ~attempts[k].logs[1].decodable
        /\ attempts[k].logs[2].decodable
        /\ \E n \in 1..Len(all_events) :
              /\ all_events[n].blockNumber = attempts[k].logs[2].blockNumber
              /\ all_events[n].logIndex = 2
        /\ k = Len(attempts) \/ attempts[k + 1].fromBlock # attempts[k].fromBlock

\* C8: when the event name is not in the contract's ABI the fetch is
\* abandoned at the first failure: no further attempt, no further window,
\* and an empty result.
C8_AbandonOnMissingEvent ==
    ~contract.has_event =>
        /\ Len(attempts) <= 1
        /\ Len(windows) <= 1
        /\ pc = "done" => returned = << >>

\* C9: a call that fails with a Fatal error is never retried: the Fatal
\* failure is the last attempt made and the error is surfaced to the caller.
C9_FatalNotRetried ==
    \A k \in 1..Len(attempts) :
        attempts[k].outcome = "fatal" => k = Len(attempts) /\ pc = "raised"

\* C10: after a Transient failure the retry of the same window is never
\* issued over the connection that just failed.
C10_RetryOnOtherConnection ==
    \A k \in 1..(Len(attempts) - 1) :
        (attempts[k].outcome = "transient"
            /\ attempts[k + 1].fromBlock = attempts[k].fromBlock)
        => attempts[k + 1].conn # attempts[k].conn

\* C11: the number of attempts made for one window's log query never exceeds
\* 1 + the number of fallback endpoints configured for the run.
C11_AttemptCap ==
    \A i \in 1..Len(windows) :
        Len(AttemptsOfWindow(i)) <= 1 + Cardinality(FallbackEndpoints)

\* C12: there is no unbounded retry loop: for every block range and every
\* pattern of query failures the call makes finitely many attempts and
\* eventually returns.
C12_Terminates == <>(pc = "done")

C12_Witness ==
    /\ pc = "done"
    /\ Len(attempts) = max_retries
    /\ \A k \in 1..Len(attempts) : attempts[k].outcome \in ErrorKinds

SkippedCount == Cardinality({ i \in 1..Len(windows) : Skipped(i) })

\* C14: the number of skipped windows is available to the caller: after a
\* scan in which exactly one window exhausted its attempts, the caller is
\* handed a skipped-window count of 1.
C14_SkippedCountReported ==
    (pc = "done" /\ SkippedCount = 1)
        => /\ "skipped_windows" \in DOMAIN CallerView
           /\ CallerView.skipped_windows = 1

\* C15: a pause lies between every two consecutive windows: when the loop is
\* about to enter a further window, a pause has been made since the previous
\* window was entered, also when that window was answered at once.
C15_PauseBetweenWindows ==
    (pc = "loop" /\ windows # << >> /\ start_block <= to_block) => slept >= 1

\* C16: every block range a caller hands to get_historical_events is a pair
\* of non-negative integers with from <= to, whatever chain head the node
\* reports, and no log query is issued with a negative fromBlock.
C16_NonNegativeRange ==
    \A k \in 1..Len(Queries) :
        /\ from_block >= 0
        /\ from_block <= to_block
        /\ Queries[k].fromBlock >= 0

\* the records of all_events that lie in window i
RecordsOfWindow(i) ==
    { n \in 1..Len(all_events) : WindowIndex(all_events[n].blockNumber) = i }

\* C17: retrying a window never duplicates records: an answered attempt is
\* the last attempt of its window, a window whose attempts all failed has no
\* record in all_events, a window has as many records as its one answered
\* response has decodable logs, and no record occurs twice.
C17_NoDuplicates ==
    /\ \A i \in 1..Len(windows) :
          LET a == AttemptsOfWindow(i)
          IN /\ \A k \in 1..Len(a) : a[k].outcome = "ok" => k = Len(a)
             /\ Cardinality(RecordsOfWindow(i))
                   = IF Succeeded(i) THEN Len(Expected(a[Len(a)].logs)) ELSE 0
    /\ \A m, n \in 1..Len(all_events) :
          m # n => all_events[m] # all_events[n]

C17_Witness ==
    /\ pc = "done"
    /\ \E i \in 1..Len(windows) :
          LET a == AttemptsOfWindow(i)
          IN /\ Len(a) = max_retries
             /\ Failed(a[1]) /\ Failed(a[2]) /\ ~Failed(a[3])
             /\ Len(Expected(a[3].logs)) >= 2
             /\ Cardinality(RecordsOfWindow(i)) >= 2
====
